---- MODULE Spec2Model ----
(***************************************************************************)
(* Model of Week11-Starter/src/main.cpp: process start-up (InitGLFW,       *)
(* InitGLAD), scene assembly, the frame loop (poll, behaviours, world      *)
(* matrices, sort, draw pass, UI, swap) and shutdown.                      *)
(*                                                                         *)
(* Pointers are modelled by their addresses: a shader is a number in       *)
(* Shaders, a material a number in Materials, nullptr is Null.  The scene  *)
(* that main() assembles is generalised to any scene within the bounds:    *)
(* any list of renderables over any table of materials (shader and render  *)
(* layer per material).  Materials are numbered in address order, and a    *)
(* material that no renderable references is left out: it never reaches    *)
(* the sort or the draw pass.                                              *)
(***************************************************************************)
EXTENDS Integers, Sequences, FiniteSets

\* ---------------------------------------------------------------- bounds
NumShaders == 2
MaxRenderables == 3
NumControllables == 2
MaxBehaviours == 2

\* skyboxMat->RenderLayer = 100; every other material keeps layer 0.
SkyboxLayer == 100

Null == 0
Shaders == 1..NumShaders
Layers == {0, SkyboxLayer}

VARIABLES
    pc,          \* position of main()
    exitCode,    \* -1 while running, else the process status
    glfw,        \* "none" | "ok" | "failed": result of glfwInit()
    window,      \* "none" | "ok" | "null": the global GLFWwindow*
    glad,        \* "none" | "ok" | "failed": result of gladLoadGLLoader
    shouldClose, \* glfwWindowShouldClose(window)
    activeScene, \* Application::Instance().ActiveScene != nullptr
    imgui,       \* "none" | "up" | "down": the ImGui context
    matShader,   \* material -> its Shader pointer
    matLayer,    \* material -> its RenderLayer
    entMat,      \* renderable entity -> RendererComponent.Material
    pool,        \* order of the render group's entities
    prevPool,    \* order of the render group before the last sort
    current,     \* Shader::sptr current of the draw pass
    currentMat,  \* ShaderMaterial::sptr currentMat of the draw pass
    drawIx,      \* position of renderGroup.each in pool
    drawLog,     \* entities whose vao->Render() ran in this frame, in order
    bindCount,   \* Shader::Bind calls of this frame's draw pass
    setupCount,  \* SetupShaderForFrame calls of this frame's draw pass
    applyCount,  \* ShaderMaterial::Apply calls of this frame's draw pass
    worldStale,  \* entities whose world matrix is older than their local transform
    frameLog,    \* steps the current frame has executed, in order
    linked,      \* shaders on which Link() has been called
    boundShader, \* the shader of the last Shader::Bind call
    uniformsFresh, \* frame-level uniforms pushed to boundShader since its last
                 \* Bind of this frame
    appliedMat,  \* the material of the last ShaderMaterial::Apply call
    attended,    \* a user operates keyboard and mouse during this run
    controllables, \* std::vector<GameObject> controllables (entities)
    behEnabled,  \* entity -> Enabled flags of its behaviours, in attachment order
    relative,    \* entity -> Relative flag of its SimpleMoveBehaviour
    selectedVao, \* int selectedVao
    ortho,       \* the camera is in orthographic mode
    kpFired,     \* a keypad +/- handler has run
    uiFocused,   \* ImGui::IsAnyWindowFocused()
    lightFlags,  \* noLight, ambLight, specLight, specAmLight, otherToon
    lightUniforms, \* value last sent to each lighting-mode uniform
    lastPressed, \* the lighting button pressed last, or "none"
    beginCalls,  \* ImGui::Begin calls of the last RenderImGui
    endCalls,    \* ImGui::End calls of the last RenderImGui
    activation,  \* how a widget was activated in the last RenderImGui:
                 \* "mouse", "key" (keyboard navigation), or "none"
    updateLog    \* <<entity, index>> of each behaviour updated in this frame

vars == <<pc, exitCode, glfw, window, glad, shouldClose, activeScene, imgui, matShader,
          matLayer, entMat, pool, prevPool, current, currentMat, drawIx,
          drawLog, bindCount, setupCount, applyCount, worldStale, frameLog,
          linked, boundShader, uniformsFresh, appliedMat, attended,
          controllables, behEnabled, relative, selectedVao, ortho, kpFired,
          uiFocused, lightFlags, lightUniforms, lastPressed, beginCalls,
          endCalls, activation, updateLog>>

initVars == <<glfw, window, glad>>
sceneVars == <<matShader, matLayer, entMat>>
passVars == <<current, currentMat, drawIx, drawLog, bindCount, setupCount, applyCount>>
glVars == <<linked, boundShader, uniformsFresh, appliedMat>>
inputVars == <<attended, controllables, behEnabled, relative, selectedVao, ortho, kpFired>>
uiVars == <<uiFocused, lightFlags, lightUniforms, lastPressed, beginCalls, endCalls,
            activation>>

\* The five lighting modes of the "Light Requirements" buttons, in the order
\* of their buttons.
LightModes == <<"NoLighting", "Ambient", "Specular", "AmbientAndSpecular",
                "AmbientSpecularToon">>
ModeSet == {LightModes[i] : i \in 1..Len(LightModes)}

Entities == 1..Len(entMat)

\* ------------------------------------------------------------ the sort
LayerOf(e) == matLayer[entMat[e]]
ShaderOf(e) == matShader[entMat[e]]

\* Faulty variants of the comparator: one that forgets the render layer, one
\* that forgets the shader, one that forgets the material, and one that
\* answers true for two renderables of the same material.
CompareNoLayer(l, r) ==
    IF ShaderOf(l) < ShaderOf(r) THEN TRUE
    ELSE IF ShaderOf(l) > ShaderOf(r) THEN FALSE
    ELSE IF entMat[l] < entMat[r] THEN TRUE
    ELSE FALSE

CompareNoShader(l, r) ==
    IF LayerOf(l) < LayerOf(r) THEN TRUE
    ELSE IF LayerOf(l) > LayerOf(r) THEN FALSE
    ELSE IF entMat[l] < entMat[r] THEN TRUE
    ELSE FALSE

CompareNoMaterial(l, r) ==
    IF LayerOf(l) < LayerOf(r) THEN TRUE
    ELSE IF LayerOf(l) > LayerOf(r) THEN FALSE
    ELSE IF ShaderOf(l) < ShaderOf(r) THEN TRUE
    ELSE FALSE

CompareTiesLess(l, r) ==
    IF LayerOf(l) < LayerOf(r) THEN TRUE
    ELSE IF LayerOf(l) > LayerOf(r) THEN FALSE
    ELSE IF ShaderOf(l) < ShaderOf(r) THEN TRUE
    ELSE IF ShaderOf(l) > ShaderOf(r) THEN FALSE
    ELSE IF entMat[l] < entMat[r] THEN TRUE
    ELSE IF entMat[l] > entMat[r] THEN FALSE
    ELSE TRUE

\* The comparator handed to renderGroup.sort: render layer, then shader
\* pointer, then material pointer.
Compare(l, r) ==
    IF LayerOf(l) < LayerOf(r) THEN TRUE
    ELSE IF LayerOf(l) > LayerOf(r) THEN FALSE
    ELSE IF ShaderOf(l) < ShaderOf(r) THEN TRUE
    ELSE IF ShaderOf(l) > ShaderOf(r) THEN FALSE
    ELSE IF entMat[l] < entMat[r] THEN TRUE
    ELSE IF entMat[l] > entMat[r] THEN FALSE
    ELSE FALSE

\* renderGroup.sort: the algorithm belongs to the entity-component library;
\* it is taken to be the stable sort of the design (section 2), here an
\* insertion sort: x is inserted behind every element it is not less than.
RECURSIVE InsertSorted(_, _)
InsertSorted(x, s) ==
    IF s = <<>> THEN <<x>>
    ELSE IF Compare(x, s[Len(s)])
         THEN Append(InsertSorted(x, SubSeq(s, 1, Len(s) - 1)), s[Len(s)])
         ELSE Append(s, x)

RECURSIVE SortGroup(_)
SortGroup(s) ==
    IF s = <<>> THEN <<>>
    ELSE InsertSorted(s[Len(s)], SortGroup(SubSeq(s, 1, Len(s) - 1)))

\* --------------------------------------------------- start-up, lines 216-225
Init ==
    /\ pc = "InitGLFW"
    /\ exitCode = -1
    /\ glfw = "none"
    /\ window = "none"
    /\ glad = "none"
    /\ shouldClose = FALSE
    /\ activeScene = FALSE
    /\ imgui = "none"
    /\ matShader = <<>>
    /\ matLayer = <<>>
    /\ entMat = <<>>
    /\ pool = <<>>
    /\ prevPool = <<>>
    /\ current = Null
    /\ currentMat = Null
    /\ drawIx = 0
    /\ drawLog = <<>>
    /\ bindCount = 0
    /\ setupCount = 0
    /\ applyCount = 0
    /\ worldStale = {}
    /\ frameLog = <<>>
    /\ linked = {}
    /\ boundShader = Null
    /\ uniformsFresh = FALSE
    /\ appliedMat = Null
    /\ attended = FALSE
    /\ controllables = <<>>
    /\ behEnabled = <<>>
    /\ relative = <<>>
    /\ selectedVao = 0
    /\ ortho = FALSE
    /\ kpFired = FALSE
    /\ uiFocused = FALSE
    /\ lightFlags = [m \in ModeSet |-> 0]
    /\ lightUniforms = [m \in ModeSet |-> 0]
    /\ lastPressed = "none"
    /\ beginCalls = 0
    /\ endCalls = 0
    /\ activation = "none"
    /\ updateLog = <<>>

\* glfwInit() == GLFW_FALSE: InitGLFW returns false, main returns 1.
InitGLFWFails ==
    /\ pc = "InitGLFW"
    /\ glfw' = "failed"
    /\ pc' = "Exited"
    /\ exitCode' = 1
    /\ UNCHANGED <<window, glad, shouldClose, activeScene, imgui, sceneVars,
                   pool, prevPool, passVars, worldStale, frameLog,
                   glVars, inputVars, uiVars, updateLog>>

\* glfwInit() succeeds; glfwCreateWindow returns a window or nullptr.  The
\* result is not tested: InitGLFW stores it and returns true.
InitGLFWReturnsTrue ==
    /\ pc = "InitGLFW"
    /\ glfw' = "ok"
    /\ \E w \in {"ok", "null"} : window' = w
    /\ pc' = "InitGLAD"
    /\ UNCHANGED <<exitCode, glad, shouldClose, activeScene, imgui, sceneVars,
                   pool, prevPool, passVars, worldStale, frameLog,
                   glVars, inputVars, uiVars, updateLog>>

\* glfwCreateWindow returned nullptr and glfwSetWindowSizeCallback(nullptr, ..)
\* dereferences it: the process is killed inside InitGLFW and returns no
\* exit code of its own.
InitGLFWNullWindowCrash ==
    /\ pc = "InitGLFW"
    /\ glfw' = "ok"
    /\ window' = "null"
    /\ pc' = "Crashed"
    /\ UNCHANGED <<exitCode, glad, shouldClose, activeScene, imgui, sceneVars,
                   pool, prevPool, passVars, worldStale, frameLog,
                   glVars, inputVars, uiVars, updateLog>>

\* gladLoadGLLoader(..) == 0: InitGLAD returns false, main returns 1.
InitGLADFails ==
    /\ pc = "InitGLAD"
    /\ glad' = "failed"
    /\ pc' = "Exited"
    /\ exitCode' = 1
    /\ UNCHANGED <<glfw, window, shouldClose, activeScene, imgui, sceneVars,
                   pool, prevPool, passVars, worldStale, frameLog,
                   glVars, inputVars, uiVars, updateLog>>

\* gladLoadGLLoader finds the GL entry points of the current context, which
\* exists only if the window does.
InitGLADReturnsTrue ==
    /\ pc = "InitGLAD"
    /\ window = "ok"
    /\ glad' = "ok"
    /\ pc' = "BuildScene"
    /\ UNCHANGED <<exitCode, glfw, window, shouldClose, activeScene, imgui,
                   sceneVars, pool, prevPool, passVars, worldStale, frameLog,
                   glVars, inputVars, uiVars, updateLog>>

\* ------------------------------------------- scene assembly, lines 227-780
\* Each material gets a shader and a render layer, each renderable entity a
\* material; the render group lists the entities in creation order.  Local
\* transforms are set, world matrices are not yet computed.  The scene
\* becomes the active scene, and InitImGui creates the UI context.
IdentitySeq(n) == [i \in 1..n |-> i]

\* Faulty variant: the shader created last is never linked.
LinkedShadersButLast == Shaders \ {NumShaders}

\* Every Shader::Create is followed by its Link() (lines 248, 494, 499, 723).
LinkedShaders == Shaders

\* An unattended run on any scene: every renderable carries one enabled
\* behaviour, no entity is controllable.
BuildScene ==
    /\ pc = "BuildScene"
    /\ \E n \in 0..MaxRenderables :
         \E k \in 0..n :
           \E em \in [1..n -> 1..k], ms \in [1..k -> Shaders], ml \in [1..k -> Layers] :
              /\ \A m \in 1..k : \E e \in 1..n : em[e] = m
              /\ matShader' = ms
              /\ matLayer' = ml
              /\ entMat' = em
              /\ pool' = IdentitySeq(n)
              /\ worldStale' = 1..n
              /\ behEnabled' = [e \in 1..n |-> <<TRUE>>]
              /\ relative' = [e \in 1..n |-> FALSE]
    /\ linked' = LinkedShaders
    /\ lightUniforms' = lightFlags
    /\ attended' = FALSE
    /\ controllables' = <<>>
    /\ activeScene' = TRUE
    /\ imgui' = "up"
    /\ pc' = "LoopCheck"
    /\ UNCHANGED <<exitCode, initVars, shouldClose, prevPool, passVars, frameLog,
                   boundShader, uniformsFresh, appliedMat, selectedVao, ortho,
                   kpFired, uiFocused, lightFlags, lastPressed, beginCalls,
                   endCalls, activation, updateLog>>

\* Sequences of Enabled flags of up to n behaviours.
FlagSeqs(n) == UNION {[1..k -> BOOLEAN] : k \in 0..n}

\* An attended run on the controllable part of the scene main() assembles:
\* each controllable entity carries a SimpleMoveBehaviour bound disabled
\* (BindDisabled, lines 542, 552) and enters controllables (lines 752-753);
\* one more entity stands for the rest of the scene, with behaviours bound
\* enabled (Bind, lines 668, 683, 711) or disabled.  All use the first
\* shader on layer 0.
BuildDemoScene ==
    /\ pc = "BuildScene"
    /\ LET n == NumControllables + 1
       IN  /\ matShader' = [m \in 1..n |-> 1]
           /\ matLayer' = [m \in 1..n |-> 0]
           /\ entMat' = IdentitySeq(n)
           /\ pool' = IdentitySeq(n)
           /\ worldStale' = 1..n
           /\ \E rest \in FlagSeqs(MaxBehaviours) :
                 behEnabled' = [e \in 1..n |-> IF e = n THEN rest ELSE <<FALSE>>]
           /\ relative' = [e \in 1..n |-> FALSE]
    /\ linked' = LinkedShaders
    /\ lightUniforms' = lightFlags
    /\ attended' = TRUE
    /\ controllables' = IdentitySeq(NumControllables)
    /\ activeScene' = TRUE
    /\ imgui' = "up"
    /\ pc' = "LoopCheck"
    /\ UNCHANGED <<exitCode, initVars, shouldClose, prevPool, passVars, frameLog,
                   boundShader, uniformsFresh, appliedMat, selectedVao, ortho,
                   kpFired, uiFocused, lightFlags, lastPressed, beginCalls,
                   endCalls, activation, updateLog>>

\* ------------------------------------------------ frame loop, lines 783-880
\* Faulty variant: the loop never looks at the close flag.
LoopConditionIgnoresClose == TRUE

LoopCondition == ~shouldClose

\* while (!glfwWindowShouldClose(window))
LoopCheck ==
    /\ pc = "LoopCheck"
    /\ pc' = IF LoopCondition THEN "PollEvents" ELSE "Shutdown"
    /\ UNCHANGED <<exitCode, initVars, shouldClose, activeScene, imgui, sceneVars,
                   pool, prevPool, passVars, worldStale, frameLog,
                   glVars, inputVars, uiVars, updateLog>>

\* glfwPollEvents(): a close request sets the window's close flag.  Timing
\* and the FPS ring buffer follow.
PollEvents ==
    /\ pc = "PollEvents"
    /\ \E close \in BOOLEAN : shouldClose' = (shouldClose \/ close)
    /\ frameLog' = <<"poll">>
    /\ updateLog' = <<>>
    /\ pc' = "PollKeys"
    /\ UNCHANGED <<exitCode, initVars, activeScene, imgui, sceneVars, pool,
                   prevPool, passVars, worldStale,
                   glVars, inputVars, uiVars>>

\* ---- key watchers, lines 743-774
\* The watchers in the order of keyToggles.
KeyOrder == <<"T", "KP_ADD", "KP_SUBTRACT", "Y">>
KeySet == {KeyOrder[i] : i \in 1..Len(KeyOrder)}

\* What the handlers read and write.
InputState ==
    [ortho |-> ortho, sel |-> selectedVao, en |-> behEnabled, rel |-> relative,
     kp |-> kpFired]

\* BehaviourBinding::Get<SimpleMoveBehaviour>(entity)->Enabled = v; the
\* SimpleMoveBehaviour is the entity's first behaviour.
SetEnabled(en, entity, v) == [en EXCEPT ![entity][1] = v]

\* GLFW_KEY_T: cameraObject.get<Camera>().ToggleOrtho().
HandleT(s) == [s EXCEPT !.ortho = ~s.ortho]

\* Faulty variant: the behaviour selected so far is not disabled.
HandleAddKeepsOld(s) ==
    LET next == IF s.sel + 1 >= Len(controllables) THEN 0 ELSE s.sel + 1
    IN  [s EXCEPT !.en = SetEnabled(s.en, controllables[next + 1], TRUE),
                  !.sel = next, !.kp = TRUE]

\* GLFW_KEY_KP_ADD, lines 755-761.
HandleAdd(s) ==
    LET off == SetEnabled(s.en, controllables[s.sel + 1], FALSE)
        next == IF s.sel + 1 >= Len(controllables) THEN 0 ELSE s.sel + 1
    IN  [s EXCEPT !.en = SetEnabled(off, controllables[next + 1], TRUE),
                  !.sel = next, !.kp = TRUE]

\* GLFW_KEY_KP_SUBTRACT, lines 762-768.
HandleSubtract(s) ==
    LET off == SetEnabled(s.en, controllables[s.sel + 1], FALSE)
        next == IF s.sel - 1 < 0 THEN Len(controllables) - 1 ELSE s.sel - 1
    IN  [s EXCEPT !.en = SetEnabled(off, controllables[next + 1], TRUE),
                  !.sel = next, !.kp = TRUE]

\* GLFW_KEY_Y, lines 770-773.
HandleY(s) ==
    LET entity == controllables[s.sel + 1]
    IN  [s EXCEPT !.rel = [s.rel EXCEPT ![entity] = ~s.rel[entity]]]

Handle(key, s) ==
    CASE key = "T" -> HandleT(s)
      [] key = "KP_ADD" -> HandleAdd(s)
      [] key = "KP_SUBTRACT" -> HandleSubtract(s)
      [] key = "Y" -> HandleY(s)

\* for (const KeyPressWatcher& watcher : keyToggles) watcher.Poll(window):
\* the watchers whose key press is seen run their handlers, in order.
RECURSIVE PollWatchers(_, _, _)
PollWatchers(i, fired, s) ==
    IF i > Len(KeyOrder) THEN s
    ELSE PollWatchers(i + 1, fired,
                      IF KeyOrder[i] \in fired THEN Handle(KeyOrder[i], s) ELSE s)

\* Faulty variant: the watchers are polled whatever the UI focus.
KeysPolledAlways == TRUE

\* if (!ImGui::IsAnyWindowFocused())
KeysPolled == ~uiFocused

\* The key watchers are polled unless a UI window is focused.
PollKeys ==
    /\ pc = "PollKeys"
    /\ \E fired \in (IF attended THEN SUBSET KeySet ELSE {{}}) :
         LET s == IF KeysPolled THEN PollWatchers(1, fired, InputState)
                                ELSE InputState
         IN  /\ ortho' = s.ortho
             /\ selectedVao' = s.sel
             /\ behEnabled' = s.en
             /\ relative' = s.rel
             /\ kpFired' = s.kp
    /\ frameLog' = Append(frameLog, "keys")
    /\ pc' = "Behaviours"
    /\ UNCHANGED <<exitCode, initVars, shouldClose, activeScene, imgui, sceneVars,
                   pool, prevPool, passVars, worldStale, glVars, attended,
                   controllables, uiVars, updateLog>>

\* Faulty variant: the Enabled flag is not tested.
BehaviourRunsAlways(e, i) == TRUE

\* if (behaviour->Enabled)
BehaviourRuns(e, i) == behEnabled[e][i]

\* for (const auto& behaviour : binding.Behaviours): the updates of one
\* entity, in attachment order.
UpdatesOfEntity(e) ==
    SelectSeq([i \in 1..Len(behEnabled[e]) |-> <<e, i>>],
              LAMBDA p : BehaviourRuns(p[1], p[2]))

\* view<BehaviourBinding>().each: the updates of the entities from e on.
RECURSIVE UpdatesFrom(_)
UpdatesFrom(e) ==
    IF e > Len(behEnabled) THEN <<>>
    ELSE UpdatesOfEntity(e) \o UpdatesFrom(e + 1)

\* The entities an update of this frame may move: with a user at the
\* controls any of the updated entities (SimpleMoveBehaviour and
\* CameraControlBehaviour move by the keys held), otherwise the updated
\* behaviours are path followers (FollowPathBehaviour, lines 668, 683), which
\* move their entity in every frame.
Movements(updated) == IF attended THEN SUBSET updated ELSE {updated}

\* Every enabled behaviour is updated; an update may move its entity, which
\* leaves the entity's world matrix stale.
UpdateBehaviours ==
    /\ pc = "Behaviours"
    /\ updateLog' = UpdatesFrom(1)
    /\ \E moved \in Movements({updateLog'[i][1] : i \in 1..Len(updateLog')}) :
          worldStale' = worldStale \cup moved
    /\ frameLog' = Append(frameLog, "behaviours")
    /\ pc' = "World"
    /\ UNCHANGED <<exitCode, initVars, shouldClose, activeScene, imgui, sceneVars,
                   pool, prevPool, passVars, glVars, inputVars, uiVars>>

\* Faulty variant: the world matrices are not recomputed.
UpdateWorldMatricesSkipped(stale) == stale

\* view<Transform>().each(UpdateWorldMatrix): no world matrix stays stale.
UpdateWorldMatrices(stale) == {}

ClearAndUpdateWorld ==
    /\ pc = "World"
    /\ worldStale' = UpdateWorldMatrices(worldStale)
    /\ frameLog' = Append(frameLog, "world")
    /\ pc' = "Sort"
    /\ UNCHANGED <<exitCode, initVars, shouldClose, activeScene, imgui, sceneVars,
                   pool, prevPool, passVars,
                   glVars, inputVars, uiVars, updateLog>>

\* renderGroup.sort, then current = nullptr, currentMat = nullptr.
SortRenderers ==
    /\ pc = "Sort"
    /\ prevPool' = pool
    /\ pool' = SortGroup(pool)
    /\ current' = Null
    /\ currentMat' = Null
    /\ drawIx' = 1
    /\ drawLog' = <<>>
    /\ bindCount' = 0
    /\ setupCount' = 0
    /\ applyCount' = 0
    /\ uniformsFresh' = FALSE
    /\ frameLog' = Append(frameLog, "sort")
    /\ pc' = "Draw"
    /\ UNCHANGED <<exitCode, initVars, shouldClose, activeScene, imgui, sceneVars,
                   worldStale,
                   linked, boundShader, appliedMat, inputVars, uiVars, updateLog>>

\* Faulty variant: the uniforms are set but vao->Render() is not called.
RenderVAONoRender(log, e) == log

\* RenderVAO: three per-object uniforms, then vao->Render().
RenderVAO(log, e) == Append(log, e)

\* Faulty variant: the shader is set up for the first renderable only.
ShaderChangedAtStartOnly(cur, e) == cur = Null

\* if (current != renderer.Material->Shader)
ShaderChanged(cur, e) == cur # ShaderOf(e)

\* if (currentMat != renderer.Material)
MaterialChanged(cur, e) == cur # entMat[e]

\* One call of the lambda of renderGroup.each.
DrawRenderable ==
    /\ pc = "Draw"
    /\ drawIx <= Len(pool)
    /\ LET e == pool[drawIx]
           shaderChanged == ShaderChanged(current, e)
           materialChanged == MaterialChanged(currentMat, e)
       IN  /\ current' = IF shaderChanged THEN ShaderOf(e) ELSE current
           \* current->Bind() and the Bind inside SetupShaderForFrame
           /\ bindCount' = IF shaderChanged THEN bindCount + 2 ELSE bindCount
           /\ setupCount' = IF shaderChanged THEN setupCount + 1 ELSE setupCount
           /\ boundShader' = IF shaderChanged THEN ShaderOf(e) ELSE boundShader
           /\ uniformsFresh' = IF shaderChanged THEN TRUE ELSE uniformsFresh
           /\ currentMat' = IF materialChanged THEN entMat[e] ELSE currentMat
           /\ applyCount' = IF materialChanged THEN applyCount + 1 ELSE applyCount
           /\ appliedMat' = IF materialChanged THEN entMat[e] ELSE appliedMat
           /\ drawLog' = RenderVAO(drawLog, e)
    /\ drawIx' = drawIx + 1
    /\ UNCHANGED <<pc, exitCode, initVars, shouldClose, activeScene, imgui,
                   sceneVars, pool, prevPool, worldStale, frameLog, linked,
                   inputVars, uiVars, updateLog>>

\* Faulty variant: the buffers are swapped right after the draw pass, before
\* the UI is rendered.
DrawDoneSwapsEarly ==
    /\ pc = "Draw"
    /\ drawIx > Len(pool)
    /\ frameLog' = frameLog \o <<"draw", "swap">>
    /\ pc' = "RenderImGui"
    /\ UNCHANGED <<exitCode, initVars, shouldClose, activeScene, imgui, sceneVars,
                   pool, prevPool, passVars, worldStale,
                   glVars, inputVars, uiVars, updateLog>>

\* renderGroup.each has visited every entity of the group.
DrawDone ==
    /\ pc = "Draw"
    /\ drawIx > Len(pool)
    /\ frameLog' = Append(frameLog, "draw")
    /\ pc' = "RenderImGui"
    /\ UNCHANGED <<exitCode, initVars, shouldClose, activeScene, imgui, sceneVars,
                   pool, prevPool, passVars, worldStale,
                   glVars, inputVars, uiVars, updateLog>>

\* Faulty variant: a button sets its own flag and leaves the others alone.
PressButtonKeepsOthers(flags, b) == [flags EXCEPT ![b] = 1]

\* A lighting button (lines 317-360): its own flag becomes 1, the other
\* four become 0; each value is sent to its uniform as it is assigned.
PressButton(flags, b) == [m \in ModeSet |-> IF m = b THEN 1 ELSE 0]

\* ImGui::Checkbox("Relative Rotation", &behaviour->Relative) of the selected
\* controllable, lines 362-365.
ToggleRelative(rel) ==
    LET entity == controllables[selectedVao + 1]
    IN  [rel EXCEPT ![entity] = ~rel[entity]]

\* if (ImGui::Begin("Debug")) { callbacks; ImGui::End(); }
EndCalls(open) == IF open THEN 1 ELSE 0

\* io.ConfigFlags |= ImGuiConfigFlags_NavEnableKeyboard: the widgets of a
\* focused window can be activated from the keyboard as well as by the mouse.
Activations == IF uiFocused THEN {"mouse", "key"} ELSE {"mouse"}

\* RenderImGui, lines 159-192: Begin("Debug") returns whether the window is
\* open (not collapsed); if so the callbacks run, where the user activates at
\* most one lighting button or the checkbox, and End is called; then
\* ImGui::Render.  The new ImGui frame also settles which window has the
\* focus; a window whose widget is activated from the keyboard keeps it.
RenderUI ==
    /\ pc = "RenderImGui"
    /\ \E open \in (IF attended THEN BOOLEAN ELSE {TRUE}),
          click \in (IF attended THEN ModeSet \cup {"none", "checkbox"} ELSE {"none"}),
          focus \in (IF attended THEN BOOLEAN ELSE {FALSE}),
          by \in Activations :
         /\ (open /\ click # "none" /\ by = "key") => focus
         /\ (~open \/ click = "none") => by = "mouse"
         /\ activation' = IF open /\ click # "none" THEN by ELSE "none"
         /\ beginCalls' = 1
         /\ endCalls' = EndCalls(open)
         /\ uiFocused' = focus
         /\ lightFlags' = IF open /\ click \in ModeSet
                          THEN PressButton(lightFlags, click) ELSE lightFlags
         /\ lightUniforms' = IF open /\ click \in ModeSet
                             THEN PressButton(lightUniforms, click) ELSE lightUniforms
         /\ lastPressed' = IF open /\ click \in ModeSet THEN click ELSE lastPressed
         /\ relative' = IF open /\ click = "checkbox"
                        THEN ToggleRelative(relative) ELSE relative
    /\ frameLog' = Append(frameLog, "ui")
    /\ pc' = "Swap"
    /\ UNCHANGED <<exitCode, initVars, shouldClose, activeScene, imgui, sceneVars,
                   pool, prevPool, passVars, worldStale, glVars, attended,
                   controllables, behEnabled, selectedVao, ortho, kpFired,
                   updateLog>>

\* scene->Poll(); glfwSwapBuffers(window); time.LastFrame = time.CurrentFrame.
SwapBuffers ==
    /\ pc = "Swap"
    /\ frameLog' = Append(frameLog, "swap")
    /\ pc' = "LoopCheck"
    /\ UNCHANGED <<exitCode, initVars, shouldClose, activeScene, imgui, sceneVars,
                   pool, prevPool, passVars, worldStale,
                   glVars, inputVars, uiVars, updateLog>>

\* ActiveScene = nullptr; ShutdownImGui(); Logger::Uninitialize(); return 0.
Shutdown ==
    /\ pc = "Shutdown"
    /\ activeScene' = FALSE
    /\ imgui' = "down"
    /\ exitCode' = 0
    /\ pc' = "Exited"
    /\ UNCHANGED <<initVars, shouldClose, sceneVars, pool, prevPool, passVars,
                   worldStale, frameLog,
                   glVars, inputVars, uiVars, updateLog>>

Next ==
    \/ InitGLFWFails
    \/ InitGLFWReturnsTrue
    \/ InitGLFWNullWindowCrash
    \/ InitGLADFails
    \/ InitGLADReturnsTrue
    \/ BuildScene
    \/ LoopCheck
    \/ PollEvents
    \/ PollKeys
    \/ UpdateBehaviours
    \/ ClearAndUpdateWorld
    \/ SortRenderers
    \/ DrawRenderable
    \/ DrawDone
    \/ RenderUI
    \/ SwapBuffers
    \/ Shutdown

Spec == Init /\ [][Next]_vars

\* The attended run on the scene of main().
NextUI ==
    \/ InitGLFWFails
    \/ InitGLFWReturnsTrue
    \/ InitGLFWNullWindowCrash
    \/ InitGLADFails
    \/ InitGLADReturnsTrue
    \/ BuildDemoScene
    \/ LoopCheck
    \/ PollEvents
    \/ PollKeys
    \/ UpdateBehaviours
    \/ ClearAndUpdateWorld
    \/ SortRenderers
    \/ DrawRenderable
    \/ DrawDone
    \/ RenderUI
    \/ SwapBuffers
    \/ Shutdown

SpecUI == Init /\ [][NextUI]_vars

\* ------------------------------------------------------------- properties
\* The draw pass of the current frame has issued its last draw call.
PassDone == pc = "RenderImGui"

\* Number of maximal runs of equal consecutive elements of a sequence.
Runs(s) == Cardinality({i \in 1..Len(s) : i = 1 \/ s[i] # s[i - 1]})

SortedShaders == [i \in 1..Len(pool) |-> ShaderOf(pool[i])]
SortedMaterials == [i \in 1..Len(pool) |-> entMat[pool[i]]]
DistinctShaders == Cardinality({ShaderOf(e) : e \in Entities})
DistinctMaterials == Cardinality({entMat[e] : e \in Entities})
TimesDrawn(e) == Cardinality({i \in 1..Len(drawLog) : drawLog[i] = e})
PositionIn(s, e) == CHOOSE i \in 1..Len(s) : s[i] = e

\* C1: within a frame no renderable of a higher render layer is drawn before
\* a renderable of a lower render layer.
C1_LowerLayerDrawnFirst ==
    \A i, j \in 1..Len(drawLog) :
        i < j => LayerOf(drawLog[i]) <= LayerOf(drawLog[j])

\* A finished pass over a group that held a higher layer ahead of a lower one.
C1_Witness ==
    /\ PassDone
    /\ Len(drawLog) >= 2
    /\ \E i, j \in 1..Len(prevPool) :
          i < j /\ LayerOf(prevPool[i]) > LayerOf(prevPool[j])

\* C2: a finished draw pass has issued exactly one draw call per renderable
\* of the render group, and no pass ever draws a renderable twice.
C2_OneDrawPerRenderable ==
    /\ \A e \in Entities : TimesDrawn(e) <= 1
    /\ PassDone => /\ Len(drawLog) = Len(pool)
                   /\ \A e \in Entities : TimesDrawn(e) = 1

\* A finished pass over renderables of two shaders sharing one of them.
C2_Witness ==
    /\ PassDone
    /\ Len(drawLog) >= 3
    /\ DistinctShaders = 2

\* C3: after the draw pass the number of Shader::Bind calls equals the
\* number of maximal runs of equal shader in sorted order.
C3_BindsEqualShaderRuns ==
    PassDone => bindCount = Runs(SortedShaders)

\* C4 as stated: after the draw pass the number of shader binds (entries of
\* the shader-change branch) equals the number of distinct shaders in use.
C4_BindsEqualDistinctShaders ==
    PassDone => setupCount = DistinctShaders

\* No shader is shared by materials of different render layers.
ShaderOnOneLayer ==
    \A a, b \in Entities : ShaderOf(a) = ShaderOf(b) => LayerOf(a) = LayerOf(b)

\* C4 amended: after the draw pass the number of shader changes equals the
\* number of maximal runs of equal shader in sorted order, each change makes
\* two Bind calls, the number is at least the number of distinct shaders and
\* equals it when no shader is used on two render layers.
C4_ShaderChangesEqualRuns ==
    PassDone => /\ setupCount = Runs(SortedShaders)
                /\ bindCount = 2 * setupCount
                /\ setupCount >= DistinctShaders
                /\ ShaderOnOneLayer => setupCount = DistinctShaders

\* A finished pass that changed shader more often than there are shaders.
C4_Witness ==
    /\ PassDone
    /\ setupCount > DistinctShaders

\* C5: after the draw pass the number of ShaderMaterial::Apply calls equals
\* the number of maximal runs of equal material in sorted order, which is
\* the number of distinct materials in use.
C5_AppliesEqualMaterialRuns ==
    PassDone => /\ applyCount = Runs(SortedMaterials)
                /\ applyCount = DistinctMaterials

\* A finished pass where the sort brought two renderables of one material
\* together that another material separated.
C5_Witness ==
    /\ PassDone
    /\ applyCount < Len(drawLog)
    /\ applyCount >= 2
    /\ \E i \in 2..(Len(prevPool) - 1) :
          /\ entMat[prevPool[i - 1]] = entMat[prevPool[i + 1]]
          /\ entMat[prevPool[i]] # entMat[prevPool[i - 1]]
          /\ LayerOf(prevPool[i]) = LayerOf(prevPool[i - 1])
          /\ ShaderOf(prevPool[i]) = ShaderOf(prevPool[i - 1])

InitFailed == glfw = "failed" \/ window = "null" \/ glad = "failed"

Terminated == pc \in {"Exited", "Crashed"}

\* C8: a process whose GLFW (window creation included) or GLAD initialisation
\* failed builds no scene, runs no frame and ends with exit code 1; a process
\* whose initialisation succeeded ends with exit code 0.
C8_ExitCodes ==
    /\ InitFailed => ~activeScene /\ imgui = "none" /\ frameLog = <<>>
    /\ (Terminated /\ InitFailed) => exitCode = 1
    /\ (Terminated /\ ~InitFailed) => exitCode = 0

\* Positions of main() inside one iteration of the frame loop.
FramePcs == {"PollEvents", "PollKeys", "Behaviours", "World", "Sort", "Draw",
             "RenderImGui", "Swap"}

\* C9: the loop check starts a frame exactly when the close flag is clear and
\* leaves the loop exactly when it is set; a frame in progress runs on to
\* swap-buffers whatever the flag; the loop is left only from the loop check;
\* and leaving it clears the active scene and shuts the UI down before the
\* process returns.
C9_LoopRunsUntilClose ==
    [][/\ (pc = "LoopCheck" /\ shouldClose) => pc' = "Shutdown"
       /\ (pc = "LoopCheck" /\ ~shouldClose) => pc' = "PollEvents"
       /\ pc' = "PollEvents" => ~shouldClose
       /\ pc \in FramePcs => (pc' \in FramePcs \/ (pc = "Swap" /\ pc' = "LoopCheck"))
       /\ pc' = "Shutdown" => pc = "LoopCheck"
       /\ pc = "Shutdown" => /\ pc' = "Exited"
                             /\ ~activeScene'
                             /\ imgui' = "down"
                             /\ exitCode' = 0
      ]_vars

\* A process that returned after a frame which saw the close flag set while
\* it was in progress and still ran through swap-buffers.
C9_Witness ==
    /\ pc = "Exited"
    /\ exitCode = 0
    /\ shouldClose
    /\ ~activeScene
    /\ imgui = "down"
    /\ Len(frameLog) > 0
    /\ frameLog[Len(frameLog)] = "swap"
    /\ drawLog # <<>>

\* Positions from the start of the sort to the last draw call of a frame.
SortDrawPcs == {"Sort", "Draw"}

\* C10: when the sort/draw pass of a frame is entered the frame has already
\* run its behaviour updates and its world-matrix updates, in that order, and
\* no world matrix is stale; between the start of the sort and the last draw
\* call nothing changes the scene state.
C10_SceneUpdatedBeforePass ==
    [][/\ pc' \in SortDrawPcs =>
             /\ worldStale' = {}
             /\ Len(frameLog') >= 4
             /\ frameLog'[3] = "behaviours"
             /\ frameLog'[4] = "world"
       /\ (pc \in SortDrawPcs /\ pc' \in SortDrawPcs) =>
             UNCHANGED <<sceneVars, worldStale>>
      ]_vars

\* A frame after the first, in the middle of its draw calls.
C10_Witness ==
    /\ pc = "Draw"
    /\ drawIx > 1
    /\ drawIx <= Len(pool)
    /\ worldStale = {}
    /\ frameLog = <<"poll", "keys", "behaviours", "world", "sort">>
    /\ prevPool = pool
    /\ Len(pool) >= 2

\* The steps of one frame, in the order of the loop body.
FrameOrder == <<"poll", "keys", "behaviours", "world", "sort", "draw", "ui", "swap">>

\* C11: the steps a frame has taken so far are always an initial part of the
\* fixed order poll input, update behaviours and transforms, sort and draw,
\* render UI, swap buffers; so the buffers are swapped once per frame, after
\* the draw pass (every renderable of the group drawn) and the UI render;
\* and a frame that is over has taken every step.
C11_FrameStepsInOrder ==
    /\ Len(frameLog) <= Len(FrameOrder)
    /\ frameLog = SubSeq(FrameOrder, 1, Len(frameLog))
    /\ (pc = "Swap" => /\ frameLog = SubSeq(FrameOrder, 1, 7)
                       /\ Len(drawLog) = Len(pool)
                       /\ beginCalls = 1)
    /\ ((pc \in {"LoopCheck", "Shutdown", "Exited"} /\ frameLog # <<>>) =>
            frameLog = FrameOrder)

\* A frame that is over, with draw calls, after an earlier frame.
C11_Witness ==
    /\ pc = "LoopCheck"
    /\ frameLog = FrameOrder
    /\ Len(drawLog) >= 2
    /\ prevPool = pool

\* How often a behaviour was updated in the frame.
TimesUpdated(b) == Cardinality({j \in 1..Len(updateLog) : updateLog[j] = b})

\* The behaviour updates of the frame are over.
UpdatesDone == Len(frameLog) >= 3

\* C12: once the update step of a frame is over, every behaviour that was
\* enabled has been updated exactly once and no disabled behaviour has been
\* updated; the updates of one entity come in attachment order; and the
\* SimpleMoveBehaviour of a controllable, bound disabled, is neither enabled
\* nor updated before a keypad +/- handler has run.
C12_EnabledUpdatedOnce ==
    /\ UpdatesDone =>
          /\ \A e \in 1..Len(behEnabled) : \A i \in 1..Len(behEnabled[e]) :
                TimesUpdated(<<e, i>>) = IF behEnabled[e][i] THEN 1 ELSE 0
          /\ \A j \in 1..Len(updateLog) :
                /\ updateLog[j][1] \in 1..Len(behEnabled)
                /\ updateLog[j][2] \in 1..Len(behEnabled[updateLog[j][1]])
          /\ \A j, k \in 1..Len(updateLog) :
                (j < k /\ updateLog[j][1] = updateLog[k][1]) =>
                    updateLog[j][2] < updateLog[k][2]
    /\ ~kpFired =>
          \A c \in 1..Len(controllables) :
             /\ ~behEnabled[controllables[c]][1]
             /\ TimesUpdated(<<controllables[c], 1>>) = 0

\* A frame that updated two behaviours of one entity and skipped a disabled
\* one between them, and updated the SimpleMoveBehaviour a key press enabled
\* while leaving the other controllable's alone.
C12_Witness ==
    /\ UpdatesDone
    /\ pc = "World"
    /\ kpFired
    /\ \E e \in 1..Len(behEnabled) :
          /\ Len(behEnabled[e]) >= 2
          /\ TimesUpdated(<<e, 1>>) = 1
          /\ TimesUpdated(<<e, 2>>) = 0
    /\ \E c, d \in 1..Len(controllables) :
          /\ TimesUpdated(<<controllables[c], 1>>) = 1
          /\ TimesUpdated(<<controllables[d], 1>>) = 0

\* C13: from the first draw call of the first frame on, in every frame, every
\* shader referenced by a renderable's material is linked; in particular the
\* shader a draw call binds and draws with is linked.
C13_ShadersLinkedBeforeDraw ==
    /\ pc \in FramePcs => \A e \in Entities : ShaderOf(e) \in linked
    /\ drawLog # <<>> => ShaderOf(drawLog[Len(drawLog)]) \in linked
    /\ boundShader # Null => boundShader \in linked

\* A frame after the first that has drawn with every shader there is.
C13_Witness ==
    /\ pc = "Draw"
    /\ prevPool = pool
    /\ drawLog # <<>>
    /\ {ShaderOf(drawLog[j]) : j \in 1..Len(drawLog)} = Shaders
    /\ linked = Shaders

\* Neither entity is ordered before the other.
Equivalent(l, r) == ~Compare(l, r) /\ ~Compare(r, l)

\* The sort key of an entity is smaller in lexicographic order.
KeyLess(l, r) ==
    \/ LayerOf(l) < LayerOf(r)
    \/ LayerOf(l) = LayerOf(r) /\ ShaderOf(l) < ShaderOf(r)
    \/ LayerOf(l) = LayerOf(r) /\ ShaderOf(l) = ShaderOf(r) /\ entMat[l] < entMat[r]

\* The group is about to be sorted for the first time.
FirstSort == pc = "Sort" /\ drawLog = <<>>

\* C14: on the renderables of any group handed to the sort the comparator is
\* irreflexive, asymmetric and transitive, it is the lexicographic order on
\* (render layer, shader, material), and two renderables are equivalent
\* under it exactly when they have the same layer, shader and material.
\* (The scene does not change after it is built: the first sort of a run
\* stands for all.)
C14_StrictWeakOrdering ==
    FirstSort =>
       \A a \in Entities :
          /\ ~Compare(a, a)
          /\ \A b \in Entities :
                /\ Compare(a, b) =>
                      /\ ~Compare(b, a)
                      /\ \A c \in Entities : Compare(b, c) => Compare(a, c)
                /\ Compare(a, b) <=> KeyLess(a, b)
                /\ Equivalent(a, b) <=> /\ LayerOf(a) = LayerOf(b)
                                        /\ ShaderOf(a) = ShaderOf(b)
                                        /\ entMat[a] = entMat[b]

\* A group about to be sorted for the first time, with two distinct
\* renderables of one material, which the comparator holds
\* equivalent, and a third that differs from them by material only and is
\* ordered before them.
C14_Witness ==
    /\ FirstSort
    /\ \E a, b, c \in Entities :
          /\ b # c
          /\ Equivalent(b, c)
          /\ Compare(a, b)
          /\ Compare(a, c)
          /\ LayerOf(a) = LayerOf(b)
          /\ ShaderOf(a) = ShaderOf(b)

\* C15: a draw call leaves the drawn material's shader bound, with the
\* frame-level uniforms pushed to it since it was bound in this frame, and
\* the drawn material the one applied last; the tracking of shader and
\* material starts as none when a frame's pass starts, with no frame-level
\* uniforms pushed yet.
C15_DrawStateMatchesMaterial ==
    [][/\ (pc = "Draw" /\ Len(drawLog') = Len(drawLog) + 1) =>
             LET e == drawLog'[Len(drawLog')]
             IN  /\ e = pool[drawIx]
                 /\ boundShader' = ShaderOf(e)
                 /\ uniformsFresh'
                 /\ appliedMat' = entMat[e]
                 /\ current' = boundShader'
                 /\ currentMat' = appliedMat'
       /\ (pc = "Sort" /\ pc' = "Draw") =>
             /\ current' = Null
             /\ currentMat' = Null
             /\ ~uniformsFresh'
      ]_vars

\* A later frame whose pass drew three renderables of three materials with
\* two shader changes: one draw kept the shader and changed the material.
C15_Witness ==
    /\ pc = "Draw"
    /\ prevPool = pool
    /\ Len(drawLog) = 3
    /\ setupCount = 2
    /\ applyCount = 3
    /\ uniformsFresh
    /\ boundShader = ShaderOf(drawLog[3])
    /\ appliedMat = entMat[drawLog[3]]

\* What the key handlers and the Debug window act on: the selection, the
\* camera mode and the Enabled and Relative flags.
Controlled == <<selectedVao, ortho, behEnabled, relative>>

\* C16 as stated: while a UI window is focused, no key press changes the
\* selection, the camera mode or an Enabled or Relative flag; that is,
\* under focus such a change comes neither from the key watchers nor from a
\* keyboard activation in the Debug window.
C16_NoKeyChangeWhileFocused ==
    [][(uiFocused /\ Controlled' # Controlled) =>
          (pc # "PollKeys" /\ activation' # "key")]_vars

\* C16, amended: the key watchers are polled only when no UI window is
\* focused, so under focus the key-watcher step changes nothing; the
\* selection, the camera mode and the Enabled flags change in no other step
\* of the loop; the Relative flag changes outside the key-watcher step only
\* through the checkbox of the open Debug window.
C16_WatchersIdleWhileFocused ==
    [][/\ (pc = "PollKeys" /\ uiFocused) => UNCHANGED Controlled
       /\ (pc \notin {"PollKeys", "BuildScene"}) =>
             UNCHANGED <<selectedVao, ortho, behEnabled>>
       /\ (pc \notin {"PollKeys", "BuildScene"} /\ relative' # relative) =>
             /\ pc = "RenderImGui"
             /\ endCalls' = 1
             /\ activation' # "none"
      ]_vars

\* A frame polled under focus after the key watchers had already moved the
\* selection, switched the camera mode and toggled a Relative flag.
C16_Witness ==
    /\ pc = "Behaviours"
    /\ uiFocused
    /\ kpFired
    /\ selectedVao # 0
    /\ ortho
    /\ \E c \in 1..Len(controllables) : relative[controllables[c]]

\* The controllables whose SimpleMoveBehaviour is enabled, by index.
EnabledControllables ==
    {c \in 0..(Len(controllables) - 1) : behEnabled[controllables[c + 1]][1]}

\* C17: with controllables in place, whatever keypad +/- presses have been
\* handled, selectedVao is an index into controllables (going past either end
\* wraps to the other), at most one controllable has its SimpleMoveBehaviour
\* enabled, and an enabled one is the one at index selectedVao; once a
\* keypad handler has run, exactly that one is enabled.
C17_SelectionInRange ==
    controllables # <<>> =>
       /\ selectedVao \in 0..(Len(controllables) - 1)
       /\ Cardinality(EnabledControllables) <= 1
       /\ EnabledControllables \subseteq {selectedVao}
       /\ kpFired => EnabledControllables = {selectedVao}
       /\ HandleAdd(InputState).sel = (selectedVao + 1) % Len(controllables)
       /\ HandleSubtract(InputState).sel =
             (selectedVao + Len(controllables) - 1) % Len(controllables)

\* The selection has moved to the last controllable, from where keypad +
\* wraps to the first, and only that controllable's behaviour is enabled.
C17_Witness ==
    /\ controllables # <<>>
    /\ kpFired
    /\ selectedVao = Len(controllables) - 1
    /\ EnabledControllables = {selectedVao}
    /\ HandleAdd(InputState).sel = 0
    /\ pc = "Behaviours"

\* The lighting modes whose flag is 1.
ActiveModes == {m \in ModeSet : lightFlags[m] = 1}

\* C18: each lighting flag is 0 or 1 and at most one is 1; once a lighting
\* button has been pressed exactly one flag is 1, the flag of the button
\* pressed last; and the value last sent to each lighting uniform is the
\* value of its flag.
C18_OneLightingMode ==
    /\ \A m \in ModeSet : lightFlags[m] \in {0, 1}
    /\ Cardinality(ActiveModes) <= 1
    /\ lastPressed = "none" => ActiveModes = {}
    /\ lastPressed # "none" => ActiveModes = {lastPressed}
    /\ lightUniforms = lightFlags

\* The last button of the group has been pressed, by keyboard activation,
\* in a run whose earlier frames pressed other widgets.
C18_Witness ==
    /\ pc = "Swap"
    /\ endCalls = 1
    /\ activation = "key"
    /\ lastPressed = LightModes[Len(LightModes)]
    /\ ActiveModes = {lastPressed}
    /\ lightUniforms[lastPressed] = 1
    /\ lightUniforms[LightModes[1]] = 0

\* C19: when RenderImGui has run, up to ImGui::Render, its Begin("Debug") has
\* been matched by exactly one End, whether Begin returned true or false.
C19_BeginPairedWithEnd ==
    pc = "Swap" => (beginCalls = 1 /\ endCalls = beginCalls)

====
